---- MODULE Spec2Model ----
(***************************************************************************)
(* The repeated-run supervisor of run_eternal_pain_loop.py: the run cycle  *)
(* of main(), Runner._run_with_timeout (deadline, SIGINT, grace, SIGKILL), *)
(* Runner._run_checked, Runner._analyze_and_plot and the SIGINT/SIGTERM    *)
(* handler main._handle_sig, with the child processes as the environment.  *)
(*                                                                         *)
(* Time is counted in ticks of one second.  Python runs a signal handler   *)
(* in the main thread between two steps of the main code, so the main      *)
(* code is suspended while a handler frame is active (hpc # "none"); a     *)
(* handler frame can itself be interrupted by a further signal.            *)
(*                                                                         *)
(* run_eternal_happy_loop.py is the same supervisor without the analysis   *)
(* step and the display: its behaviours are those with show_graph = FALSE. *)
(* The statements of the source are the steps; the print calls are assumed *)
(* not to fail.                                                            *)
(***************************************************************************)
EXTENDS Integers, Sequences, FiniteSets, TLC

\* ---------------------------------------------------------------- bounds
MaxT == 2          \* per-run timeouts 1..MaxT are tried
MaxCycles == 2     \* loop iterations that are started
MaxSignals == 2    \* SIGINT/SIGTERM deliveries to the supervisor

\* ------------------------------------------------------ program constants
Grace == 5             \* proc.communicate(timeout=5)
Sleep == 2             \* time.sleep(2)
ExitInterrupt == 130   \* sys.exit(130)
ExitUncaught == 1      \* an exception leaving main(): the interpreter exits 1
NoPgid == 0            \* current_pgid = None
SupervisorPgid == 1    \* the process group the supervisor itself runs in

Backends == {"jnml", "neuron"}
Signals == {"SIGINT", "SIGTERM"}

\* What a child does: "exits" may exit on its own at any time, "hangs" never
\* exits on its own but exits once it has received SIGINT, "ignores" never
\* exits on its own and ignores SIGINT.  SIGKILL ends all of them.
Kinds == {"exits", "hangs", "ignores"}

VARIABLES
    cfg,          \* the Runner's immutable fields: backend, timeout_s, show_graph, open_graph, gui_enabled
    pc,           \* position of the main code
    hpc,          \* position of the innermost active _handle_sig frame, or "none"
    current_pgid, \* Runner.current_pgid
    proc,         \* the child of the current _run_with_timeout: its state, kind and process
                  \* group, the SIGINTs sent to its group by the timeout path (intT) and by the
                  \* handler (intH), the SIGKILLs (kill), its age, whether it exited on its own
                  \* before the deadline (own), whether a signal reached the supervisor while
                  \* it was running (intr), and its age at the timeout path's SIGINT (intAge)
    timer,        \* seconds waited in the current communicate / sleep call
    cycles,       \* iterations of the while loop started
    launched,     \* children started by _run_with_timeout; the n-th leads a group of its own
    rc,           \* the child of the current _run_checked: its command, state and exit
                  \* status, and for the analysis the data file it was started on
    viewers,      \* live xdg-open children (never waited for)
    linger,       \* earlier _run_with_timeout children still alive
    gui,          \* Runner._gui is not None
    lems,         \* the model file exists
    exitCode,     \* the supervisor's exit status, once pc = "exited"
    sigCount,     \* signals delivered to the supervisor
    lastKill,     \* the last os.killpg call of the current run
    cls,          \* how the commands of the current cycle have ended so far
    log,          \* the lines printed in the current cycle that report a failure
    poem          \* poetic_quadrant_pain.py --loop: position of its main code (pc), its
                  \* locals variation and interrupted, the options clear_screen and check,
                  \* completed iterations (iters), the message number and the variation last
                  \* printed, signals received (sigs), a signal whose handler has yet to
                  \* run (pending), and the exit status

vars == <<cfg, pc, hpc, current_pgid, proc, timer, cycles, launched, rc,
          viewers, linger, gui, lems, exitCode, sigCount, lastKill, cls, log, poem>>

\* poetic_quadrant_pain.py is not running.
PoemOff == [pc |-> "off", variation |-> 0, interrupted |-> FALSE, clear_screen |-> FALSE,
            check |-> FALSE, iters |-> 0, number |-> 0, printed |-> -1, sigs |-> 0,
            pending |-> FALSE, exit |-> -1]

NoProc == [st |-> "none", kind |-> "exits", pgid |-> NoPgid, intT |-> 0, intH |-> 0,
           kill |-> 0, age |-> 0, own |-> FALSE, intr |-> FALSE, intAge |-> 0]

NoRc == [what |-> "none", st |-> "none", code |-> 0, dat |-> "none"]

\* The data file of the simulation as the supervisor finds it after a run:
\* not there, there with nothing in it, there with recorded activity.
DatStates == {"absent", "empty", "full"}

NoKill == [by |-> "none", sig |-> "none", pgid |-> NoPgid, st |-> "none",
           own |-> FALSE, cause |-> "none"]

\* How a command of the cycle can end other than by a normal exit: it could not
\* be spawned, it exited with a non-zero status (the analysis command apart),
\* it exited in the grace wait after the timeout, it was sent SIGKILL.
Classes == {"LaunchFailure", "NonZeroExit", "AnalysisFailure",
            "TimedOutGraceful", "TimedOutKilled"}

\* The print calls that report a failure: "[ERROR] Command failed ..." of the
\* loop, "[TIMEOUT] Sending SIGINT ..." and "[TIMEOUT] ... sending SIGKILL..."
\* of _run_with_timeout, "[GUI] Failed to update GUI ..." of _analyze_and_plot.
\* ("[INTERRUPT] Caught signal ..." is printed once per call of the handler:
\* sigCount counts it.)
Lines == {"ERROR", "TIMEOUT_SIGINT", "TIMEOUT_SIGKILL", "GUI"}

NoLog == [l \in Lines |-> 0]

Printed(l) == [log EXCEPT ![l] = @ + 1]

\* The age of a child is counted up to one past the last deadline it can meet.
AgeCap == cfg.timeout_s + Grace + 1

Alive(p) == p.st \in {"running", "killed"}

Init ==
    /\ cfg \in [backend : Backends, timeout_s : 1..MaxT, show_graph : BOOLEAN,
                open_graph : BOOLEAN, gui_enabled : BOOLEAN]
    \* OPEN and --gui are read only by _analyze_and_plot, which runs only with
    \* SHOW_GRAPH=1: without it one setting of them stands for all.
    /\ cfg.show_graph \/ (~cfg.open_graph /\ ~cfg.gui_enabled)
    /\ pc = "ensure"
    /\ hpc = "none"
    /\ current_pgid = NoPgid
    /\ proc = NoProc
    /\ timer = 0
    /\ cycles = 0
    /\ launched = 0
    /\ rc = NoRc
    /\ viewers = 0
    /\ linger = 0
    /\ gui = FALSE
    /\ lems \in BOOLEAN
    /\ exitCode = 0
    /\ sigCount = 0
    /\ lastKill = NoKill
    /\ cls = {}
    /\ log = NoLog
    /\ poem = PoemOff


\* ------------------------------------------------------------ exceptions
\* The exceptions that travel through the main code: SystemExit (raised by
\* sys.exit in the handler), CalledProcessError (subprocess.run, check=True),
\* OSError (a command that cannot be spawned), Exception (a display error).
IsException(exc) == exc # "SystemExit"

\* Catches with "except Exception" written as a bare "except:", which also
\* catches SystemExit.
CatchesBare(site, exc) ==
    CASE site = "mod" -> TRUE
      [] site = "gui" -> TRUE
      [] site = "loop" -> exc = "CalledProcessError"
      [] OTHER -> FALSE

\* Catches with the clause of the loop written as "except
\* subprocess.TimeoutExpired".
CatchesTimeoutInLoop(site, exc) ==
    CASE site = "mod" -> IsException(exc)
      [] site = "gui" -> IsException(exc)
      [] site \in {"loop", "texc", "gexc"} -> exc = "TimeoutExpired"
      [] OTHER -> FALSE

\* Catches with the clause around the display update written as "except
\* subprocess.CalledProcessError".
CatchesCalledInGui(site, exc) ==
    CASE site = "mod" -> IsException(exc)
      [] site \in {"gui", "loop"} -> exc = "CalledProcessError"
      [] site \in {"texc", "gexc"} -> exc = "TimeoutExpired"
      [] OTHER -> FALSE

\* Catches with the two "except subprocess.TimeoutExpired" clauses of
\* _run_with_timeout written as a bare "except:".
CatchesAnyInRun(site, exc) ==
    CASE site = "mod" -> IsException(exc)
      [] site = "gui" -> IsException(exc)
      [] site = "loop" -> exc = "CalledProcessError"
      [] site \in {"texc", "gexc"} -> TRUE
      [] OTHER -> FALSE

\* Does the except clause of a try statement catch exc?  "mod": the try around
\* nrnivmodl, "gui": the try around the display update, "loop": the try around
\* run_once, "texc" and "gexc": the try statements around the two communicate
\* calls of _run_with_timeout (TimeoutExpired is raised by communicate and is
\* modelled by WaitTimeout and GraceTimeout; no other exception is one),
\* "finally": the try/finally of _run_with_timeout (catches nothing).
Catches(site, exc) ==
    CASE site = "mod" -> IsException(exc)
      [] site = "gui" -> IsException(exc)
      [] site = "loop" -> exc = "CalledProcessError"
      [] site \in {"texc", "gexc"} -> exc = "TimeoutExpired"
      [] OTHER -> FALSE

\* After with a "continue" at the end of the except clause of the loop.
AfterContinue(site) ==
    CASE site = "mod" -> "nrncheck"
      [] site = "texc" -> "timeout"
      [] site = "gexc" -> "gtimeout"
      [] OTHER -> "loop_top"

\* Where the main code goes on once the except clause of a site has run.
After(site) ==
    CASE site = "mod" -> "nrncheck"
      [] site = "texc" -> "timeout"
      [] site = "gexc" -> "gtimeout"
      [] OTHER -> "cycle_end"

\* SitesOfChecked with ensure_generated called inside the try of the loop.
SitesOfCheckedInLoop(what) ==
    CASE what = "mod" -> <<"mod", "loop">>
      [] OTHER -> <<"loop">>

\* SitesOfChecked with the try/except around nrnivmodl left out.
SitesOfCheckedBare(what) ==
    CASE what = "gen" -> << >>
      [] OTHER -> <<"loop">>

\* The try statements around the call of _run_checked(what), innermost first.
SitesOfChecked(what) ==
    CASE what = "gen" -> << >>
      [] what = "mod" -> <<"mod", "loop">>
      [] OTHER -> <<"loop">>

\* SitesAt with the call of ping inside a try/except Exception of its own, as
\* the call of update_image is.
SitesAtPingGuarded(p, what) ==
    CASE p \in {"wait", "drain"} -> <<"texc", "finally", "loop">>
      [] p \in {"grace", "gdrain"} -> <<"gexc", "finally", "loop">>
      [] p \in {"timeout", "gtimeout"} -> <<"finally", "loop">>
      [] p \in {"popen", "setpgid", "finally", "unw_finally", "after_run", "open", "mods", "nrncheck"} -> <<"loop">>
      [] p \in {"gui", "cycle_end"} -> <<"gui", "loop">>
      [] p \in {"rc_wait", "unw_rc"} -> SitesOfChecked(what)
      [] OTHER -> << >>

\* The try statements around position p of the main code, innermost first.
SitesAt(p, what) ==
    CASE p \in {"wait", "drain"} -> <<"texc", "finally", "loop">>
      [] p \in {"grace", "gdrain"} -> <<"gexc", "finally", "loop">>
      [] p \in {"timeout", "gtimeout"} -> <<"finally", "loop">>
      [] p \in {"popen", "setpgid", "finally", "unw_finally", "after_run", "open", "mods", "nrncheck"} -> <<"loop">>
      [] p = "gui" -> <<"gui", "loop">>
      [] p \in {"rc_wait", "unw_rc"} -> SitesOfChecked(what)
      [] OTHER -> << >>

\* Where an exception raised inside the given try statements lands: at the
\* finally block, after the first except clause that catches it, or out of main.
RECURSIVE Propagate(_, _)
Propagate(sites, exc) ==
    IF sites = << >> THEN "exited"
    ELSE IF Head(sites) = "finally" THEN "unw_finally"
    ELSE IF Catches(Head(sites), exc) THEN After(Head(sites))
    ELSE Propagate(Tail(sites), exc)

\* The try statement whose clause takes the exception over, or "none".
RECURSIVE Catcher(_, _)
Catcher(sites, exc) ==
    IF sites = << >> THEN "none"
    ELSE IF Head(sites) = "finally" \/ Catches(Head(sites), exc) THEN Head(sites)
    ELSE Catcher(Tail(sites), exc)

\* sys.exit() without a status.
ExitStatusNone(exc) == IF exc = "SystemExit" THEN 0 ELSE ExitUncaught

ExitStatus(exc) == IF exc = "SystemExit" THEN ExitInterrupt ELSE ExitUncaught

\* The main code continues at l; leaving main sets the exit status.
Land(l, exc) ==
    /\ pc' = l
    /\ exitCode' = IF l = "exited" THEN ExitStatus(exc) ELSE exitCode

Goto(l) == pc' = l /\ exitCode' = exitCode

\* exc is raised inside the try statements sites: the main code goes on where
\* the exception lands, and the except clause of the loop or of the display
\* update prints its line.
Raise(sites, exc) ==
    /\ Land(Propagate(sites, exc), exc)
    /\ log' = CASE Catcher(sites, exc) = "loop" -> Printed("ERROR")
                [] Catcher(sites, exc) = "gui" -> Printed("GUI")
                [] OTHER -> log

\* A command of the cycle fails with exc inside the try statements sites, which
\* ends the cycle as class says unless the failure is swallowed ("except
\* Exception: pass" around nrnivmodl) and the cycle goes on as if nothing had
\* happened.
Fails(class, sites, exc) ==
    /\ cls' = IF Catcher(sites, exc) = "mod" THEN cls ELSE cls \cup {class}
    /\ Raise(sites, exc)

\* No command is run at this step and the main code goes on at l.
NoCommand(l) == rc' = rc /\ cls' = cls /\ log' = log /\ Goto(l)

\* ------------------------------------------------------------- os.killpg
\* os.killpg(pgid, sig) reaches the child of the current run when pgid is its
\* group and the child has not been reaped; SIGKILL ends a running child.
Signalled(p, sig, by) ==
    IF p.st = "reaped" THEN p
    ELSE [p EXCEPT !.intT = IF sig = "SIGINT" /\ by = "timeout" THEN @ + 1 ELSE @,
                   !.intAge = IF sig = "SIGINT" /\ by = "timeout" THEN p.age ELSE @,
                   !.intH = IF sig = "SIGINT" /\ by = "handler" THEN @ + 1 ELSE @,
                   !.kill = IF sig = "SIGKILL" THEN @ + 1 ELSE @,
                   !.st = IF sig = "SIGKILL" /\ @ = "running" THEN "killed" ELSE @]

\* os.killpg in the handler called with signum, the signal that was received,
\* in place of signal.SIGINT.
KillpgReceived(pgid, sig, by, cause) ==
    /\ proc' = IF pgid = proc.pgid
               THEN [Signalled(proc, IF by = "handler" THEN cause ELSE sig, by) EXCEPT
                        !.intr = @ \/ (by = "handler" /\ proc.st = "running")]
               ELSE proc
    /\ lastKill' = [by |-> by, sig |-> IF by = "handler" THEN cause ELSE sig, pgid |-> pgid,
                    st |-> IF pgid = proc.pgid THEN proc.st ELSE "none",
                    own |-> pgid = proc.pgid /\ proc.own, cause |-> cause]

\* os.killpg in the handler called with signal.SIGKILL in place of
\* signal.SIGINT: the handler kills the group outright.
KillpgOutright(pgid, sig, by, cause) ==
    /\ proc' = IF pgid = proc.pgid
               THEN [Signalled(proc, IF by = "handler" THEN "SIGKILL" ELSE sig, by) EXCEPT
                        !.intr = @ \/ (by = "handler" /\ proc.st = "running")]
               ELSE proc
    /\ lastKill' = [by |-> by, sig |-> IF by = "handler" THEN "SIGKILL" ELSE sig, pgid |-> pgid,
                    st |-> IF pgid = proc.pgid THEN proc.st ELSE "none",
                    own |-> pgid = proc.pgid /\ proc.own, cause |-> cause]

Killpg(pgid, sig, by, cause) ==
    /\ proc' = IF pgid = proc.pgid
               THEN [Signalled(proc, sig, by) EXCEPT
                        !.intr = @ \/ (by = "handler" /\ proc.st = "running")]
               ELSE proc
    /\ lastKill' = [by |-> by, sig |-> sig, pgid |-> pgid,
                    st |-> IF pgid = proc.pgid THEN proc.st ELSE "none",
                    own |-> pgid = proc.pgid /\ proc.own, cause |-> cause]


\* ---------------------------------------------------------- _run_checked
\* subprocess.run(cmd, check=True): the command is spawned (or OSError is
\* raised) and the main code waits for it without a deadline.
RunCheckedOn(what, dat) ==
    \/ /\ rc' = [what |-> what, st |-> "running", code |-> 0, dat |-> dat]
       /\ cls' = cls /\ log' = log
       /\ Goto("rc_wait")
    \/ /\ rc' = rc
       /\ Fails("LaunchFailure", SitesOfChecked(what), "OSError")

\* The command of _run_checked exits with a status.
RcExits ==
    /\ rc.st = "running"
    /\ \E code \in {0, 1} : rc' = [rc EXCEPT !.st = "zombie", !.code = code]
    /\ UNCHANGED <<poem, cfg, pc, hpc, current_pgid, proc, timer, cycles, launched,
                   viewers, linger, gui, lems, exitCode, sigCount, lastKill, cls, log>>

\* The command of _run_checked was killed by subprocess.run (process.kill()) and is gone.
RcDies ==
    /\ rc.st = "killed"
    /\ rc' = [rc EXCEPT !.st = "zombie", !.code = 1]
    /\ UNCHANGED <<poem, cfg, pc, hpc, current_pgid, proc, timer, cycles, launched,
                   viewers, linger, gui, lems, exitCode, sigCount, lastKill, cls, log>>

RunChecked(what) == RunCheckedOn(what, "none")

\* Where the main code goes on after _run_checked(what) has returned.
AfterChecked(what) ==
    CASE what = "gen" -> "loop_top"
      [] what = "nrngen" -> "mods"
      [] what = "mod" -> "nrncheck"
      [] OTHER -> "open"

\* subprocess.run returns: the child is reaped; a non-zero status raises
\* CalledProcessError.
RcReturns ==
    /\ hpc = "none" /\ pc = "rc_wait" /\ rc.st = "zombie"
    /\ rc' = NoRc
    /\ IF rc.code = 0
       THEN cls' = cls /\ log' = log /\ Goto(AfterChecked(rc.what))
       ELSE Fails(IF rc.what = "analyze" THEN "AnalysisFailure" ELSE "NonZeroExit",
                  SitesOfChecked(rc.what), "CalledProcessError")
    /\ lems' = (lems \/ (rc.what = "gen" /\ rc.code = 0))
    /\ UNCHANGED <<poem, cfg, hpc, current_pgid, proc, timer, cycles, launched,
                   viewers, linger, gui, sigCount, lastKill>>

\* ------------------------------------------------------------- run cycle
\* The test of ensure_generated with the "not" left out of it for a model file
\* that is there.
MissingOrStale(exists) == TRUE

\* if not (self.examples_dir / self.lems_file).exists()
Missing(exists) == ~exists

\* ensure_generated: the model is generated only when the model file is missing.
EnsureGenerated ==
    /\ hpc = "none" /\ pc = "ensure"
    /\ IF Missing(lems) THEN RunChecked("gen") ELSE NoCommand("loop_top")
    /\ UNCHANGED <<poem, cfg, hpc, current_pgid, proc, timer, cycles, launched,
                   viewers, linger, gui, lems, sigCount, lastKill>>

\* while True: ... runner.run_once(): the backend's first command.
LoopTop ==
    /\ hpc = "none" /\ pc = "loop_top" /\ cycles < MaxCycles
    /\ cycles' = cycles + 1
    /\ IF cfg.backend = "neuron" THEN RunChecked("nrngen") ELSE NoCommand("popen")
    /\ UNCHANGED <<poem, cfg, hpc, current_pgid, proc, timer, launched,
                   viewers, linger, gui, lems, sigCount, lastKill>>

\* _run_neuron: compile the mod files if there are any.
CompileMods ==
    /\ hpc = "none" /\ pc = "mods"
    /\ \E has_mods \in BOOLEAN :
          IF has_mods THEN RunChecked("mod") ELSE NoCommand("nrncheck")
    /\ UNCHANGED <<poem, cfg, hpc, current_pgid, proc, timer, cycles, launched,
                   viewers, linger, gui, lems, sigCount, lastKill>>

\* _run_neuron: without the generated script the run is skipped.
NrnCheck ==
    /\ hpc = "none" /\ pc = "nrncheck"
    /\ \E nrn_py_exists \in BOOLEAN :
          IF nrn_py_exists THEN Goto("popen") ELSE Goto("after_run")
    /\ UNCHANGED <<poem, cfg, hpc, current_pgid, proc, timer, cycles, launched, rc,
                   viewers, linger, gui, lems, sigCount, lastKill, cls, log>>


\* ----------------------------------------------------- _run_with_timeout
\* The group of the n-th child with preexec_fn left out: the child stays in
\* the group of the supervisor.
InheritedGroup(n) == SupervisorPgid

\* preexec_fn=os.setsid: the n-th child leads a new session and process group,
\* whose id is its pid and differs from every group that exists.
NewGroup(n) == SupervisorPgid + n

\* subprocess.Popen(cmd, preexec_fn=os.setsid, ...): the child runs in a new
\* process group of its own, or the command cannot be spawned.
Popen ==
    /\ hpc = "none" /\ pc = "popen"
    /\ \/ /\ \E kind \in Kinds :
                proc' = [NoProc EXCEPT !.st = "running", !.kind = kind, !.pgid = NewGroup(launched + 1)]
          /\ launched' = launched + 1
          /\ cls' = cls /\ log' = log
          /\ Goto("setpgid")
       \/ /\ Fails("LaunchFailure", SitesAt("popen", rc.what), "OSError")
          /\ UNCHANGED <<proc, launched>>
    /\ UNCHANGED <<poem, cfg, hpc, current_pgid, timer, cycles, rc,
                   viewers, linger, gui, lems, sigCount, lastKill>>

\* self.current_pgid = os.getpgid(proc.pid); proc.communicate(timeout=...) starts.
SetPgid ==
    /\ hpc = "none" /\ pc = "setpgid"
    /\ current_pgid' = proc.pgid
    /\ timer' = 0
    /\ Goto("wait")
    /\ UNCHANGED <<poem, cfg, hpc, proc, cycles, launched, rc,
                   viewers, linger, gui, lems, sigCount, lastKill, cls, log>>

\* proc.communicate(timeout=self.timeout_s) returns: the child has exited with
\* some status, which proc.returncode holds and nothing reads, and is reaped.
WaitReturns ==
    /\ hpc = "none" /\ pc = "wait" /\ proc.st = "zombie"
    /\ proc' = [proc EXCEPT !.st = "reaped"]
    /\ \E returncode \in {0, 1} :
          cls' = IF returncode # 0 THEN cls \cup {"NonZeroExit"} ELSE cls
    /\ Goto("drain")
    /\ timer' = 0
    /\ UNCHANGED <<poem, cfg, hpc, current_pgid, cycles, launched, rc,
                   viewers, linger, gui, lems, sigCount, lastKill, log>>

\* TimedOut with the deadline taken one second short.
TimedOutEarly(waited, limit) == waited + 1 >= limit

\* communicate and sleep called without a deadline: no wait ever times out.
TimedOutNever(waited, limit) == FALSE

\* The deadline of communicate() has passed with the child still running.
TimedOut(waited, limit) == waited >= limit

\* proc.communicate(timeout=self.timeout_s) raises TimeoutExpired.
WaitTimeout ==
    /\ hpc = "none" /\ pc = "wait" /\ proc.st = "running"
    /\ TimedOut(timer, cfg.timeout_s)
    /\ timer' = 0
    /\ Goto("timeout")
    /\ UNCHANGED <<poem, cfg, hpc, current_pgid, proc, cycles, launched, rc,
                   viewers, linger, gui, lems, sigCount, lastKill, cls, log>>

\* sys.stdout.write(stdout); sys.stderr.write(stderr)
Drain ==
    /\ hpc = "none" /\ pc \in {"drain", "gdrain"}
    /\ Goto("finally")
    /\ UNCHANGED <<poem, cfg, hpc, current_pgid, proc, timer, cycles, launched, rc,
                   viewers, linger, gui, lems, sigCount, lastKill, cls, log>>

\* except TimeoutExpired: print("[TIMEOUT] Sending SIGINT ..."),
\* os.killpg(self.current_pgid, signal.SIGINT), then proc.communicate(timeout=5)
\* starts.
SendSigint ==
    /\ hpc = "none" /\ pc = "timeout"
    /\ log' = Printed("TIMEOUT_SIGINT")
    /\ Killpg(current_pgid, "SIGINT", "timeout", "timeout")
    /\ timer' = 0
    /\ Goto("grace")
    /\ UNCHANGED <<poem, cfg, hpc, current_pgid, cycles, launched, rc,
                   viewers, linger, gui, lems, sigCount, cls>>

\* proc.communicate(timeout=5) returns: the child has exited and is reaped.
GraceReturns ==
    /\ hpc = "none" /\ pc = "grace" /\ proc.st = "zombie"
    /\ proc' = [proc EXCEPT !.st = "reaped"]
    /\ cls' = cls \cup {"TimedOutGraceful"}
    /\ Goto("gdrain")
    /\ timer' = 0
    /\ UNCHANGED <<poem, cfg, hpc, current_pgid, cycles, launched, rc,
                   viewers, linger, gui, lems, sigCount, lastKill, log>>

\* proc.communicate(timeout=5) raises TimeoutExpired.
GraceTimeout ==
    /\ hpc = "none" /\ pc = "grace" /\ proc.st = "running"
    /\ TimedOut(timer, Grace)
    /\ Goto("gtimeout")
    /\ UNCHANGED <<poem, cfg, hpc, current_pgid, proc, timer, cycles, launched, rc,
                   viewers, linger, gui, lems, sigCount, lastKill, cls, log>>

\* except TimeoutExpired: print("[TIMEOUT] Process did not exit ..."),
\* os.killpg(self.current_pgid, signal.SIGKILL); the child is not waited for.
SendSigkill ==
    /\ hpc = "none" /\ pc = "gtimeout"
    /\ log' = Printed("TIMEOUT_SIGKILL")
    /\ cls' = cls \cup {"TimedOutKilled"}
    /\ Killpg(current_pgid, "SIGKILL", "timeout", "timeout")
    /\ timer' = 0
    /\ Goto("finally")
    /\ UNCHANGED <<poem, cfg, hpc, current_pgid, cycles, launched, rc,
                   viewers, linger, gui, lems, sigCount>>

\* _run_with_timeout without line 180: the group of the child stays recorded
\* after the run.
FinallyKeeps ==
    /\ hpc = "none" /\ pc = "finally"
    /\ current_pgid' = current_pgid
    /\ proc' = NoProc
    /\ linger' = IF Alive(proc) THEN linger + 1 ELSE linger
    /\ lastKill' = NoKill
    /\ Goto("after_run")
    /\ UNCHANGED <<poem, cfg, hpc, timer, cycles, launched, rc,
                   viewers, gui, lems, sigCount, cls, log>>

\* finally: self.current_pgid = None, and _run_with_timeout returns: its
\* handle proc is gone, and a child that is still alive lingers on.
Finally ==
    /\ hpc = "none" /\ pc = "finally"
    /\ current_pgid' = NoPgid
    /\ proc' = NoProc
    /\ linger' = IF Alive(proc) THEN linger + 1 ELSE linger
    /\ lastKill' = NoKill
    /\ Goto("after_run")
    /\ UNCHANGED <<poem, cfg, hpc, timer, cycles, launched, rc,
                   viewers, gui, lems, sigCount, cls, log>>

\* ------------------------------------------------ analysis and cycle end
\* run_once: if self.show_graph: self._analyze_and_plot(), which skips the
\* analysis when the data file is missing.
AfterRun ==
    /\ hpc = "none" /\ pc = "after_run"
    /\ IF cfg.show_graph
       THEN \E dat \in DatStates :
               IF dat # "absent" THEN RunCheckedOn("analyze", dat)
                                 ELSE NoCommand("cycle_end")
       ELSE NoCommand("cycle_end")
    /\ UNCHANGED <<poem, cfg, hpc, current_pgid, proc, timer, cycles, launched,
                   viewers, linger, gui, lems, sigCount, lastKill>>

\* subprocess.Popen(["xdg-open", ...]) when OPEN=1 and the image exists: the
\* viewer is started and never waited for; a failure to start it is swallowed.
OpenGraph ==
    /\ hpc = "none" /\ pc = "open"
    /\ \E png_exists \in BOOLEAN, started \in BOOLEAN :
          viewers' = IF cfg.open_graph /\ png_exists /\ started THEN viewers + 1 ELSE viewers
    /\ Goto("gui")
    /\ UNCHANGED <<poem, cfg, hpc, current_pgid, proc, timer, cycles, launched, rc,
                   linger, gui, lems, sigCount, lastKill, cls, log>>

\* if self.gui_enabled: try: self._ensure_gui(); self._gui.update_image(...)
\* except Exception: the window may or may not get created, the update may fail.
UpdateGui ==
    /\ hpc = "none" /\ pc = "gui"
    /\ IF cfg.gui_enabled
       THEN \E created \in BOOLEAN, updated \in BOOLEAN :
               /\ gui' = (gui \/ created)
               /\ IF (gui \/ created) /\ updated
                  THEN log' = log /\ Goto("cycle_end")
                  ELSE Raise(SitesAt("gui", rc.what), "Exception")
       ELSE gui' = gui /\ log' = log /\ Goto("cycle_end")
    /\ UNCHANGED <<poem, cfg, hpc, current_pgid, proc, timer, cycles, launched, rc,
                   viewers, linger, lems, sigCount, lastKill, cls>>

\* print("[DONE] ..."); if runner.gui_enabled and runner._gui is not None:
\* runner._gui.ping(), which is not guarded; then time.sleep(2) starts.
CycleEnd ==
    /\ hpc = "none" /\ pc = "cycle_end"
    /\ IF cfg.gui_enabled /\ gui
       THEN \E pinged \in BOOLEAN :
               IF pinged THEN log' = log /\ Goto("sleep")
               ELSE Raise(SitesAt("cycle_end", rc.what), "Exception")
       ELSE log' = log /\ Goto("sleep")
    /\ timer' = 0
    /\ UNCHANGED <<poem, cfg, hpc, current_pgid, proc, cycles, launched, rc,
                   viewers, linger, gui, lems, sigCount, lastKill, cls>>

\* time.sleep(2) returns and the loop starts over: the cycle is over.
SleepDone ==
    /\ hpc = "none" /\ pc = "sleep" /\ TimedOut(timer, Sleep)
    /\ timer' = 0
    /\ cls' = {} /\ log' = NoLog
    /\ Goto("loop_top")
    /\ UNCHANGED <<poem, cfg, hpc, current_pgid, proc, cycles, launched, rc,
                   viewers, linger, gui, lems, sigCount, lastKill>>


\* ------------------------------------------------------------ _handle_sig
\* A SIGINT or SIGTERM reaches the supervisor and Python calls _handle_sig
\* between two steps of the main code, or inside an earlier _handle_sig frame
\* that is in its time.sleep(0.5): the handler reads runner.current_pgid and,
\* when it is not None, sends SIGINT to that process group.
HandleSig(s) ==
    /\ pc # "exited" /\ sigCount < MaxSignals
    /\ hpc \in {"none", "sleep"}
    /\ sigCount' = sigCount + 1
    /\ hpc' = "sleep"
    /\ IF current_pgid # NoPgid
       THEN Killpg(current_pgid, "SIGINT", "handler", s)
       ELSE /\ proc' = [proc EXCEPT !.intr = @ \/ proc.st = "running"]
            /\ lastKill' = lastKill
    /\ UNCHANGED <<poem, cfg, pc, current_pgid, timer, cycles, launched, rc,
                   viewers, linger, gui, lems, exitCode, cls, log>>

\* time.sleep(0.5) is over and sys.exit(130) raises SystemExit, which leaves
\* every handler frame and travels through the main code from where it was
\* suspended.  Inside subprocess.run the child is killed and waited for first.
HandlerExit ==
    /\ hpc = "sleep"
    /\ hpc' = "none"
    /\ IF pc = "rc_wait"
       THEN /\ rc' = [rc EXCEPT !.st = IF @ = "running" THEN "killed" ELSE @]
            /\ log' = log
            /\ Goto("unw_rc")
       ELSE /\ rc' = rc
            /\ Raise(SitesAt(pc, rc.what), "SystemExit")
    /\ timer' = 0
    /\ UNCHANGED <<poem, cfg, current_pgid, proc, cycles, launched,
                   viewers, linger, gui, lems, sigCount, lastKill, cls>>

\* SystemExit passes the finally block of _run_with_timeout:
\* self.current_pgid = None, and the exception travels on.
UnwindFinally ==
    /\ hpc = "none" /\ pc = "unw_finally"
    /\ current_pgid' = NoPgid
    /\ Raise(SitesAt("unw_finally", rc.what), "SystemExit")
    /\ UNCHANGED <<poem, cfg, hpc, proc, timer, cycles, launched, rc,
                   viewers, linger, gui, lems, sigCount, lastKill, cls>>

\* SystemExit leaves subprocess.run once the killed child has been waited for.
UnwindChecked ==
    /\ hpc = "none" /\ pc = "unw_rc" /\ rc.st = "zombie"
    /\ rc' = NoRc
    /\ Raise(SitesAt("unw_rc", rc.what), "SystemExit")
    /\ UNCHANGED <<poem, cfg, hpc, current_pgid, proc, timer, cycles, launched,
                   viewers, linger, gui, lems, sigCount, lastKill, cls>>

\* ------------------------------------------------------------ environment
\* The child of _run_with_timeout exits: on its own if it is of that kind, or
\* because it has received SIGINT and does not ignore it.  It has exited on
\* its own before the deadline if no signal had reached it and its age is
\* below the timeout.
ChildExits ==
    /\ proc.st = "running"
    /\ \/ proc.kind = "exits"
       \/ proc.kind = "hangs" /\ proc.intT + proc.intH > 0
    /\ proc' = [proc EXCEPT !.st = "zombie",
                            !.own = (proc.intT + proc.intH = 0 /\ proc.age < cfg.timeout_s)]
    /\ UNCHANGED <<poem, cfg, pc, hpc, current_pgid, timer, cycles, launched, rc,
                   viewers, linger, gui, lems, exitCode, sigCount, lastKill, cls, log>>

\* A child that was sent SIGKILL is gone.
ChildDies ==
    /\ proc.st = "killed"
    /\ proc' = [proc EXCEPT !.st = "zombie"]
    /\ UNCHANGED <<poem, cfg, pc, hpc, current_pgid, timer, cycles, launched, rc,
                   viewers, linger, gui, lems, exitCode, sigCount, lastKill, cls, log>>

\* The model file is removed from the examples directory by someone else.
ModelFileVanishes ==
    /\ lems /\ pc # "exited"
    /\ lems' = FALSE
    /\ UNCHANGED <<poem, cfg, pc, hpc, current_pgid, proc, timer, cycles, launched, rc,
                   viewers, linger, gui, exitCode, sigCount, lastKill, cls, log>>

LingerDies ==
    /\ linger > 0
    /\ linger' = linger - 1
    /\ UNCHANGED <<poem, cfg, pc, hpc, current_pgid, proc, timer, cycles, launched, rc,
                   viewers, gui, lems, exitCode, sigCount, lastKill, cls, log>>

ViewerExits ==
    /\ viewers > 0
    /\ viewers' = viewers - 1
    /\ UNCHANGED <<poem, cfg, pc, hpc, current_pgid, proc, timer, cycles, launched, rc,
                   linger, gui, lems, exitCode, sigCount, lastKill, cls, log>>

\* One second passes.  The main code is in a call that waits (communicate with
\* a deadline not yet reached and the child still running, or time.sleep), or
\* the supervisor has exited and has left the child behind.
Tick ==
    /\ hpc = "none"
    /\ \/ pc = "wait" /\ proc.st = "running" /\ timer < cfg.timeout_s
       \/ pc = "grace" /\ proc.st = "running" /\ timer < Grace
       \/ pc = "sleep" /\ timer < Sleep
       \/ pc = "exited" /\ Alive(proc) /\ proc.age < AgeCap
    /\ timer' = IF pc = "exited" THEN timer ELSE timer + 1
    /\ proc' = IF pc # "sleep" /\ Alive(proc) /\ proc.age < AgeCap
               THEN [proc EXCEPT !.age = @ + 1] ELSE proc
    /\ UNCHANGED <<poem, cfg, pc, hpc, current_pgid, cycles, launched, rc,
                   viewers, linger, gui, lems, exitCode, sigCount, lastKill, cls, log>>

Next ==
    \/ EnsureGenerated \/ LoopTop \/ CompileMods \/ NrnCheck
    \/ RcReturns \/ RcExits \/ RcDies
    \/ Popen \/ SetPgid \/ WaitReturns \/ WaitTimeout \/ Drain
    \/ SendSigint \/ GraceReturns \/ GraceTimeout \/ SendSigkill \/ Finally
    \/ AfterRun \/ OpenGraph \/ UpdateGui \/ CycleEnd \/ SleepDone
    \/ (\E s \in Signals : HandleSig(s))
    \/ HandlerExit \/ UnwindFinally \/ UnwindChecked
    \/ ChildExits \/ ChildDies \/ LingerDies \/ ViewerExits \/ ModelFileVanishes
    \/ Tick

Spec == Init /\ [][Next]_vars

\* The handler's time.sleep(0.5) ends, a process that was sent SIGKILL dies, and
\* the interpreter goes on unwinding: these steps do not wait for anything.
FairSpec ==
    /\ Spec
    /\ WF_vars(HandlerExit) /\ WF_vars(UnwindFinally) /\ WF_vars(UnwindChecked)
    /\ WF_vars(RcDies)

\* One step of the main code, whichever statement it is at.
MainStep ==
    \/ EnsureGenerated \/ LoopTop \/ CompileMods \/ NrnCheck \/ RcReturns
    \/ Popen \/ SetPgid \/ WaitReturns \/ WaitTimeout \/ Drain
    \/ SendSigint \/ GraceReturns \/ GraceTimeout \/ SendSigkill \/ Finally
    \/ AfterRun \/ OpenGraph \/ UpdateGui \/ CycleEnd \/ SleepDone

\* The supervisor is scheduled and its clocks advance: the main code takes its
\* next step when it can, the deadlines of communicate and time.sleep elapse,
\* and the commands of _run_checked (model generation, analysis) run to an
\* end.  Nothing is assumed of the child of _run_with_timeout, which may exit
\* or not as it likes.
LiveSpec ==
    /\ FairSpec
    /\ WF_vars(MainStep) /\ WF_vars(Tick)
    /\ WF_vars(RcExits) /\ WF_vars(ChildDies)

TypeOK ==
    /\ pc \in {"ensure", "loop_top", "mods", "nrncheck", "rc_wait", "popen", "setpgid",
               "wait", "drain", "timeout", "grace", "gdrain", "gtimeout", "finally",
               "after_run", "open", "gui", "cycle_end", "sleep",
               "unw_finally", "unw_rc", "exited"}
    /\ hpc \in {"none", "sleep"}
    /\ current_pgid \in {NoPgid} \cup {NewGroup(n) : n \in 1..MaxCycles}
    /\ proc.st \in {"none", "running", "killed", "zombie", "reaped"}
    /\ timer \in 0..(MaxT + Grace)
    /\ exitCode \in {0, ExitInterrupt, ExitUncaught}


\* ------------------------------------------------------------------ claims
\* SIGINTs sent to the group of the current child, by either sender.
Sigints == proc.intT + proc.intH

\* Children started by the supervisor that are alive.
LiveChildren ==
    (IF Alive(proc) THEN 1 ELSE 0) + linger + viewers
        + (IF rc.st \in {"running", "killed"} THEN 1 ELSE 0)

\* The main code has left the run cycle for good.
Unwinding == pc \in {"unw_finally", "unw_rc", "exited"}

\* C1: a signal that reaches the supervisor while a child is running results in
\* exactly one SIGINT and at most one SIGKILL to that child's process group,
\* counting the handler's and the timeout path's signals together.
C1_ExactlyOneGraceful ==
    proc.intr => (Sigints = 1 /\ proc.kill <= 1)

\* C2: every os.killpg of the handler targets the group of a child that has been
\* launched and has not yet been reaped by communicate.
C2_HandlerNeverSignalsReaped ==
    lastKill.by = "handler" => lastKill.st \in {"running", "killed", "zombie"}

\* C3: current_pgid is not None exactly when a launched child exists that has
\* not yet exited and been reaped.
C3_PgidIffLiveHandle ==
    (current_pgid # NoPgid) <=> (proc.st \in {"running", "killed", "zombie"})

\* C4: an interrupt that finds a child running escalates like a timeout: a child
\* that ignores the handler's SIGINT is sent SIGKILL once the grace period is
\* over, so it is not still running at an age past every deadline.
C4_InterruptEscalatesToKill ==
    (proc.intr /\ proc.intH >= 1 /\ proc.kind = "ignores" /\ proc.age >= AgeCap)
        => proc.st # "running"

\* C5: once a first signal has been handled, a further signal delivered to the
\* supervisor sends no further signal to the child's process group.
C5_RepeatedInterruptIsNoOp ==
    [][(sigCount >= 1 /\ sigCount' = sigCount + 1)
          => (proc'.intH = proc.intH /\ lastKill' = lastKill)]_vars

\* C6: on expiry of the per-run timeout the timeout path sends SIGINT to the
\* child's process group and starts the grace wait; a child seen to exit in the
\* grace wait (or before) is never sent SIGKILL; on expiry of the grace wait
\* SIGKILL goes to the same group; and SIGKILL is sent only after that one
\* SIGINT and a full grace period.
C6_StepsOfTimeoutPath ==
    /\ (pc = "timeout" /\ hpc = "none" /\ hpc' = "none" /\ pc' # pc)
          => /\ pc' = "grace" /\ timer' = 0
             /\ proc'.intT = proc.intT + 1
             /\ lastKill'.sig = "SIGINT" /\ lastKill'.pgid = proc.pgid
    /\ (pc = "gtimeout" /\ hpc = "none" /\ hpc' = "none" /\ pc' # pc)
          => /\ proc'.kill = proc.kill + 1
             /\ lastKill'.sig = "SIGKILL" /\ lastKill'.pgid = proc.pgid
    /\ (proc'.kill # proc.kill /\ proc'.pgid = proc.pgid)
          => /\ pc = "gtimeout" /\ proc.kill = 0 /\ proc.intT = 1
             /\ proc.st # "reaped"
             /\ proc.age >= proc.intAge + Grace

C6_KillOnlyAfterGrace ==
    /\ proc.st = "reaped" => proc.kill = 0
    /\ pc = "gdrain" => (proc.kill = 0 /\ proc.intT = 1)
    /\ proc.kill >= 1 => (proc.intT = 1 /\ proc.age >= proc.intAge + Grace)

C6_TimeoutEscalation == []C6_KillOnlyAfterGrace /\ [][C6_StepsOfTimeoutPath]_vars

C6_Witness == proc.kill = 1 /\ proc.intT = 1 /\ proc.intH = 0 /\ proc.kind = "ignores"

\* C7: a child that never exits on its own has been sent SIGINT once its age is
\* past the timeout T, and, if it ignores SIGINT, has been sent SIGKILL once its
\* age is past T plus the grace period.
C7_DeadlinesAlwaysMet ==
    /\ (proc.st = "running" /\ proc.kind # "exits" /\ proc.age > cfg.timeout_s)
          => Sigints >= 1
    /\ (Alive(proc) /\ proc.kind = "ignores" /\ proc.age > cfg.timeout_s + Grace)
          => proc.kill >= 1

\* The deadlines of C7 in the executions in which no signal reaches the supervisor.
DeadlinesMetUninterrupted == sigCount = 0 => C7_DeadlinesAlwaysMet

\* C8: no os.killpg, of the timeout path or of the handler, targets the group of
\* a child that has already exited on its own before the timeout.
C8_NoSignalAfterOwnExit ==
    lastKill.by # "none" => ~lastKill.own

\* The timeout path alone never signals a child that exited on its own in time.
TimeoutPathSparesOwnExit == lastKill.by = "timeout" => ~lastKill.own

\* C9: at most one process launched by the supervisor is alive at any time.
C9_AtMostOneLiveChild ==
    pc # "exited" => LiveChildren <= 1

\* A step towards the exit that waits for nothing but the handler's sleep, the
\* interpreter, or the death of a process that was sent SIGKILL.
ExitStep == HandlerExit \/ UnwindFinally \/ UnwindChecked \/ RcDies

\* C10: once a signal has reached the supervisor the main code takes no further
\* step of the run cycle (it is suspended under the handler, or SystemExit is
\* travelling out), whatever it was waiting for it is never blocked on the way
\* out, and when the supervisor has exited its status is 130.
C10_InterruptExits130 ==
    sigCount > 0 => /\ hpc = "sleep" \/ Unwinding
                    /\ pc # "exited" => ENABLED ExitStep
                    /\ pc = "exited" => exitCode = ExitInterrupt

\* Under FairSpec every interrupted supervisor does exit.
C10_InterruptTerminates == (sigCount > 0) ~> (pc = "exited")

C10_Witness ==
    pc = "exited" /\ sigCount > 0 /\ exitCode = ExitInterrupt /\ current_pgid = NoPgid
        /\ proc.st # "none"

\* The "[INTERRUPT] Caught signal ..." lines printed so far: one per call of
\* _handle_sig.
InterruptLines == sigCount

\* The print call that reports a class of failure.
NamedBy(class) ==
    CASE class = "TimedOutGraceful" -> "TIMEOUT_SIGINT"
      [] class = "TimedOutKilled" -> "TIMEOUT_SIGKILL"
      [] OTHER -> "ERROR"

\* C11: a command of a cycle that cannot be spawned ends the current cycle
\* only: the loop catches the failure and logs it, and the supervisor does not
\* terminate on it.
C11_LaunchFailureEndsCycleOnly ==
    (cycles > 0 /\ "LaunchFailure" \in cls)
        => /\ log["ERROR"] = 1
           /\ pc = "exited" => exitCode = ExitInterrupt

\* C12: a supervisor that has terminated after the first cycle began was
\* stopped by a signal and exits 130; one that has terminated before the loop
\* otherwise has failed to generate the model and has launched nothing.
C12_OnlyInterruptStopsLoop ==
    pc = "exited"
        => \/ sigCount > 0 /\ exitCode = ExitInterrupt
           \/ cycles = 0 /\ launched = 0 /\ cls \cap {"LaunchFailure", "NonZeroExit"} # {}

\* C13: a cycle in which a command has exited with a non-zero status, the
\* simulation command of _run_with_timeout included, reports the failure by
\* the loop's log line, and the supervisor does not terminate on it.
C13_NonZeroExitIsLoggedFailure ==
    (cycles > 0 /\ "NonZeroExit" \in cls)
        => /\ pc \in {"cycle_end", "sleep"} => log["ERROR"] = 1
           /\ pc = "exited" => exitCode = ExitInterrupt

\* The commands of _run_checked alone: a non-zero exit of the code generation
\* or of the analysis is logged by the loop, which goes on to the end of the cycle.
CheckedNonZeroExitLogged ==
    [][(pc = "rc_wait" /\ hpc = "none" /\ hpc' = "none" /\ pc' # pc
            /\ rc.what \in {"nrngen", "analyze"} /\ rc.code # 0)
          => (pc' = "cycle_end" /\ log'["ERROR"] = log["ERROR"] + 1)]_vars

\* C14: in a cycle every class of failure that has occurred has exactly one
\* log line that names it, and every interrupt handled has one.
C14_OneLogLinePerClassification ==
    /\ cycles > 0 => \A class \in cls : log[NamedBy(class)] = 1
    /\ InterruptLines = sigCount

\* C15: the model generation is invoked only by ensure_generated, before the
\* first cycle, and only when it finds the model file missing; the main code
\* never comes back to ensure_generated, so it is invoked at most once, and no
\* later cycle invokes it, whether the model file is still there or not.
C15_GenerationOnlyAtStartup ==
    [][/\ (\/ rc'.what = "gen" /\ rc.what # "gen"
           \/ cycles' = 0 /\ "LaunchFailure" \in cls' \ cls)
            => (pc = "ensure" /\ ~lems /\ cycles = 0 /\ launched = 0 /\ rc = NoRc)
       /\ pc # "ensure" => pc' # "ensure"
       /\ cycles > 0 => rc'.what # "gen"]_vars

\* A later cycle has started a simulation with the model file gone.
C15_Witness == cycles = MaxCycles /\ ~lems /\ pc = "setpgid" /\ sigCount = 0

\* A failed model generation (the command exited with a non-zero status or
\* could not be spawned) leaves main() at once.
GenerationFailureExits ==
    (cycles = 0 /\ cls # {})
        => /\ pc = "exited" /\ exitCode # 0 /\ exitCode # ExitInterrupt
           /\ launched = 0 /\ proc = NoProc /\ current_pgid = NoPgid

\* A supervisor that has exited does nothing more.
ExitIsFinal ==
    [][pc = "exited" => (pc' = "exited" /\ exitCode' = exitCode
                            /\ cycles' = cycles /\ launched' = launched)]_vars

\* C16: if the model file is missing and its generation fails, the supervisor
\* exits with a status that is neither 0 nor 130 before the loop is entered: no
\* cycle is started and no simulation child is launched in that execution.
C16_GenerationFailureIsFatal == []GenerationFailureExits /\ ExitIsFinal

C16_Witness ==
    pc = "exited" /\ cycles = 0 /\ cls = {"NonZeroExit"} /\ exitCode = ExitUncaught

RunState ==
    CASE pc \in {"setpgid", "wait", "timeout"} -> "Running"
      [] pc \in {"grace", "gtimeout"} -> "GraceWait"
      [] pc \in {"drain", "gdrain"} -> "Completed"
      [] pc = "finally" -> IF proc.kill > 0 THEN "Killed" ELSE "Completed"
      [] OTHER -> "NoRun"

RunTransitions ==
    {<<"NoRun", "Running">>, <<"Running", "Completed">>, <<"Running", "GraceWait">>,
     <<"GraceWait", "Completed">>, <<"GraceWait", "Killed">>,
     <<"Completed", "NoRun">>, <<"Killed", "NoRun">>}

\* A step of the state machine of a run.
RunStep ==
    /\ RunState' # RunState => <<RunState, RunState'>> \in RunTransitions
    /\ (RunState = "Running" /\ RunState' = "GraceWait")
          => (pc = "timeout" \/ sigCount' > sigCount)
    /\ (RunState' = "Killed" /\ RunState # "Killed")
          => (RunState = "GraceWait" /\ TimedOut(timer, Grace) /\ proc.st # "reaped")
    /\ RunState \in {"Completed", "Killed"}
          => /\ RunState' \in {RunState, "NoRun"}
             /\ proc' \in {proc, NoProc} \/ proc' = [proc EXCEPT !.st = "zombie"]
             /\ lastKill' \in {lastKill, NoKill}

\* C18: every run of _run_with_timeout follows Running -> {Completed |
\* GraceWait -> {Completed | Killed}}: GraceWait is entered from Running on the
\* timeout or on an interrupt, Killed from GraceWait once the grace period is
\* over, and after Completed or Killed no signal is sent to the child's group
\* and the run only ends.
C18_RunStateMachine == [][RunStep]_vars

\* The runs that no signal to the supervisor interferes with follow the machine.
RunStateMachineUninterrupted == [][sigCount' = 0 => RunStep]_vars

\* C19: a run of _run_with_timeout ends, and its handle on the child is
\* dropped, only when communicate has seen the child exit and reaped it (the
\* outputs are written before the finally block is reached).
C19_HandleDroppedAfterExit ==
    [][(pc = "finally" /\ pc' = "after_run") => proc.st = "reaped"]_vars

\* C20: once _handle_sig has been called the timeout path of
\* _run_with_timeout sends nothing more: it neither sends nor announces a
\* SIGINT or SIGKILL, and every later os.killpg is the handler's.
C20_InterruptPreemptsTimeoutPath ==
    [][sigCount > 0
          => /\ proc'.intT = proc.intT /\ proc'.kill = proc.kill
             /\ log'["TIMEOUT_SIGINT"] = log["TIMEOUT_SIGINT"]
             /\ log'["TIMEOUT_SIGKILL"] = log["TIMEOUT_SIGKILL"]
             /\ lastKill' # lastKill => lastKill'.by = "handler"]_vars

\* An interrupt in the grace wait: the child that ignores SIGINT is left
\* running, the SIGKILL of the timeout path is never sent.
C20_Witness ==
    /\ pc = "exited" /\ sigCount > 0 /\ proc.kind = "ignores" /\ proc.st = "running"
    /\ proc.intT = 1 /\ proc.kill = 0 /\ proc.age >= cfg.timeout_s + Grace

\* The analysis command is started at this step.
AnalysisStarts == rc'.what = "analyze" /\ rc.what # "analyze"

\* The main code takes a step from position p.
MainStepAt(p) == pc = p /\ hpc = "none" /\ hpc' = "none" /\ pc' # pc

\* The display is refreshed at this step: update_image has returned.
DisplayRefreshes == MainStepAt("gui") /\ cfg.gui_enabled /\ pc' = "cycle_end" /\ log' = log

\* C21: the analysis is started only with the analysis toggle on and on a data
\* file that is there and not empty, and the display is refreshed only with
\* the display enabled and after the analysis of this cycle has returned with
\* status 0.
C21_AnalysisOnlyOnNonEmptyData ==
    [][/\ AnalysisStarts => (pc = "after_run" /\ cfg.show_graph /\ rc'.dat = "full")
       /\ (pc' = "open" /\ pc # "open")
             => (pc = "rc_wait" /\ rc.what = "analyze" /\ rc.st = "zombie" /\ rc.code = 0)
       /\ (pc' = "gui" /\ pc # "gui") => pc = "open"
       /\ DisplayRefreshes => (cfg.gui_enabled /\ cfg.show_graph /\ gui')]_vars

\* The part of C21 that does not look into the data file.
AnalysisOnlyOnExistingData ==
    [][/\ AnalysisStarts => (pc = "after_run" /\ cfg.show_graph /\ rc'.dat # "absent")
       /\ (pc' = "open" /\ pc # "open")
             => (pc = "rc_wait" /\ rc.what = "analyze" /\ rc.st = "zombie" /\ rc.code = 0)
       /\ (pc' = "gui" /\ pc # "gui") => pc = "open"
       /\ DisplayRefreshes => (cfg.gui_enabled /\ cfg.show_graph /\ gui')]_vars

\* C22: the analysis is not started in a cycle whose simulation run has ended
\* with a non-zero status, in the grace wait after the timeout, or by SIGKILL.
C22_AnalysisOnlyAfterSuccess ==
    [][AnalysisStarts
          => cls \cap {"NonZeroExit", "TimedOutGraceful", "TimedOutKilled"} = {}]_vars

\* C23: when the analysis command exits with a non-zero status the loop
\* catches the error and prints its line, the main code goes on at the end of
\* the cycle and from there to the sleep, and the display is not touched in
\* that cycle.
C23_AnalysisFailureStep ==
    (MainStepAt("rc_wait") /\ rc.what = "analyze" /\ rc.code # 0)
        => /\ pc' = "cycle_end" /\ exitCode' = exitCode
           /\ log' = Printed("ERROR") /\ "AnalysisFailure" \in cls'
           /\ gui' = gui /\ viewers' = viewers

C23_AfterAnalysisFailure ==
    "AnalysisFailure" \in cls
        => /\ pc \in {"cycle_end", "sleep", "exited"}
           /\ log["ERROR"] = 1 /\ log["GUI"] = 0

C25_LoopStep ==
    /\ (pc' = "loop_top" /\ pc # "loop_top")
          => \/ cycles = 0 /\ pc \in {"ensure", "rc_wait"}
             \/ pc = "sleep" /\ timer >= Sleep
    /\ cycles' # cycles => (pc = "loop_top" /\ cycles' = cycles + 1)
    /\ launched' # launched => (pc = "popen" /\ launched < cycles /\ launched' = launched + 1)
    /\ (pc' = "popen" /\ pc # "popen") => pc \in {"loop_top", "nrncheck"}

C25_OneLaunchPerCycle == launched <= cycles /\ (pc = "popen" => launched < cycles)

C25_SleepBetweenLaunches == []C25_OneLaunchPerCycle /\ [][C25_LoopStep]_vars

\* The second launch, after a run whose child had to be killed.
C25_Witness == launched = MaxCycles /\ cycles = MaxCycles /\ linger >= 1 /\ pc = "wait"

\* C26: every os.killpg call targets the process group that a child of
\* _run_with_timeout leads, which is never the supervisor's own group.
C26_NeverSignalsOwnGroup ==
    lastKill.by # "none"
        => /\ lastKill.pgid # SupervisorPgid /\ lastKill.pgid # NoPgid
           /\ \E n \in 1..launched : lastKill.pgid = NewGroup(n)

C26_Witness ==
    lastKill.by = "handler" /\ lastKill.pgid = NewGroup(MaxCycles) /\ proc.intT = 1

\* C27: the run cycle is an unbounded loop.  With the jnml backend, once the
\* loop is entered the supervisor goes on launching the simulation command
\* (here: up to the MaxCycles launches the model follows), whatever the
\* children do, unless a signal reaches it or a command cannot be launched.
C27_LaunchesForever ==
    (cycles > 0 /\ cfg.backend = "jnml")
        ~> (launched = MaxCycles \/ sigCount > 0 \/ "LaunchFailure" \in cls)

\* The same with the display off (always so in run_eternal_happy_loop.py).
LaunchesForeverWithoutDisplay ==
    (cycles > 0 /\ cfg.backend = "jnml" /\ ~cfg.gui_enabled)
        ~> (launched = MaxCycles \/ sigCount > 0 \/ "LaunchFailure" \in cls)

\* The main code is inside _run_with_timeout, the child started.
InRun ==
    pc \in {"setpgid", "wait", "drain", "timeout", "grace", "gdrain", "gtimeout",
            "finally", "unw_finally"}

\* C28: every call of _run_with_timeout ends, whatever the child does: it
\* returns to run_once (natural completion or timeout escalation) or is left
\* by an exception (external interrupt); the supervisor is never blocked in it.
C28_RunAlwaysEnds == InRun ~> ~InRun

C28_Witness ==
    pc = "after_run" /\ "TimedOutKilled" \in cls /\ linger >= 1
        /\ current_pgid = NoPgid /\ sigCount = 0

\* A call of _handle_sig, for either signal.
HandlerRuns == sigCount' = sigCount + 1

\* What one call of the handler does about signals: with current_pgid present,
\* one SIGINT to that process group and nothing else; with current_pgid
\* absent, nothing.
C29_HandlerStep ==
    HandlerRuns =>
        IF current_pgid # NoPgid
        THEN /\ lastKill'.by = "handler" /\ lastKill'.sig = "SIGINT"
             /\ lastKill'.pgid = current_pgid
             /\ lastKill'.cause \in Signals
             /\ proc'.intH = (IF proc.pgid = current_pgid /\ proc.st # "reaped"
                              THEN proc.intH + 1 ELSE proc.intH)
             /\ proc'.intT = proc.intT /\ proc'.kill = proc.kill
        ELSE /\ lastKill' = lastKill
             /\ proc'.intH = proc.intH /\ proc'.intT = proc.intT
             /\ proc'.kill = proc.kill /\ proc'.st = proc.st

\* Where the claim says current_pgid is absent: before the first launch, in
\* the commands of _run_checked (the analysis is one), in the sleep.
C29_AbsentOutsideRun ==
    pc \in {"ensure", "loop_top", "mods", "nrncheck", "rc_wait", "popen",
            "after_run", "open", "gui", "cycle_end", "sleep"}
        => current_pgid = NoPgid

\* C29: on SIGINT or SIGTERM the handler reads current_pgid; if it is present
\* it sends SIGINT, whichever signal was received, to exactly that process
\* group; if it is absent it sends no signal to any process group.
C29_HandlerForwardsSigint == []C29_AbsentOutsideRun /\ [][C29_HandlerStep]_vars

C29_Witness ==
    /\ lastKill.by = "handler" /\ lastKill.cause = "SIGTERM" /\ lastKill.sig = "SIGINT"
    /\ hpc = "sleep" /\ proc.intH = 1 /\ proc.st = "running"

\* C30: current_pgid is None in every state in which control is outside
\* _run_with_timeout: whichever way the run is left, the finally block has
\* cleared it.
C30_PgidClearedOutsideRun == ~InRun => current_pgid = NoPgid

\* The same while the supervisor has not terminated: a value set for one
\* child is never still recorded when the next child is launched.
PgidClearedWhileRunning == (~InRun /\ pc # "exited") => current_pgid = NoPgid

\* A step in which os.killpg sends SIGKILL.
KillSent ==
    \/ proc'.kill > proc.kill
    \/ lastKill'.sig = "SIGKILL" /\ lastKill.sig # "SIGKILL"

\* SIGKILL is sent by the second except TimeoutExpired of _run_with_timeout
\* and by nothing else, to the group of the child of that run, which has been
\* sent one SIGINT by the timeout path and no SIGKILL yet.
C31_KillStep ==
    KillSent => /\ pc = "gtimeout" /\ hpc = "none" /\ ~HandlerRuns
                /\ lastKill'.by = "timeout" /\ lastKill'.pgid = proc.pgid
                /\ current_pgid = proc.pgid
                /\ proc.intT = 1 /\ proc.kill = 0

C31_AtMostOneKill ==
    /\ proc.kill <= 1
    /\ proc.kill = 1 => proc.intT = 1
    /\ lastKill.sig = "SIGKILL" => lastKill.by = "timeout"

\* C31: SIGKILL is sent only by the timeout path of _run_with_timeout, at most
\* once per child, and only after that same run has sent exactly one
\* timeout-driven SIGINT to the same process group; the handler never sends it.
C31_KillOnlyByTimeoutPath == []C31_AtMostOneKill /\ [][C31_KillStep]_vars

C31_Witness ==
    /\ pc = "finally" /\ lastKill.sig = "SIGKILL" /\ lastKill.pgid = NewGroup(launched)
    /\ proc.kill = 1 /\ proc.intT = 1 /\ proc.st = "killed"

\* A preparatory command of the neuron backend (pynml -neuron, nrnivmodl) is
\* running in _run_checked.
PrepRunning ==
    pc = "rc_wait" /\ rc.what \in {"nrngen", "mod"} /\ rc.st = "running"

\* While it runs nothing is sent to any process group, no deadline ends the
\* wait, and the main code stays where it is unless the command exits or the
\* handler's SystemExit takes it out.
C32_PrepStep ==
    PrepRunning =>
        /\ lastKill' = lastKill /\ proc' = proc
        /\ timer' = timer \/ (hpc = "sleep" /\ hpc' = "none")
        /\ pc' # pc => (hpc = "sleep" /\ hpc' = "none" /\ pc' = "unw_rc")
        /\ rc'.st = "killed" => (hpc = "sleep" /\ hpc' = "none")

\* Only the child of _run_with_timeout is ever recorded in current_pgid.
C32_OnlyRunRegistered ==
    /\ rc.what \in {"nrngen", "mod"} => (cfg.backend = "neuron" /\ current_pgid = NoPgid)
    /\ current_pgid # NoPgid =>
            (InRun \/ pc = "exited") /\ \E n \in 1..launched : current_pgid = NewGroup(n)

\* C32: with the neuron backend only the simulation command is bounded by the
\* timeout and recorded in current_pgid; the preparatory commands have no
\* deadline and are sent no signal by the timeout path or the handler, so one
\* that never exits blocks the cycle until an interrupt.
C32_PrepCommandsUnsupervised == []C32_OnlyRunRegistered /\ [][C32_PrepStep]_vars

C32_Witness ==
    /\ PrepRunning /\ rc.what = "mod" /\ hpc = "sleep" /\ sigCount = 1
    /\ launched = 1 /\ cycles = 2 /\ lastKill = NoKill

\* subprocess.run returns with the command what having exited non-zero.
CheckedFails(what) ==
    MainStepAt("rc_wait") /\ rc.what = what /\ rc.st = "zombie" /\ rc.code # 0

\* The main code arrives at position p.
Arrives(p) == pc' = p /\ pc # p

\* The steps of a cycle of the neuron backend: what each is preceded by and
\* how each failure ends.
C33_NeuronStep ==
    cfg.backend = "neuron" =>
        /\ MainStepAt("loop_top") => (rc'.what = "nrngen" \/ pc' = "exited")
        /\ Arrives("mods") =>
               (pc = "rc_wait" /\ rc.what = "nrngen" /\ rc.st = "zombie" /\ rc.code = 0)
        /\ Arrives("nrncheck") =>
               (pc = "mods" \/ (pc = "rc_wait" /\ rc.what = "mod" /\ rc.st = "zombie"))
        /\ Arrives("popen") => pc = "nrncheck"
        /\ CheckedFails("nrngen") =>
               /\ pc' = "cycle_end" /\ log' = Printed("ERROR") /\ log["ERROR"] = 0
               /\ launched' = launched /\ proc' = NoProc /\ proc = NoProc
        /\ CheckedFails("mod") =>
               pc' = "nrncheck" /\ log' = log /\ cls' = cls
        /\ (MainStepAt("nrncheck") /\ pc' # "popen") =>
               /\ pc' = "after_run"
               /\ launched' = launched /\ proc' = NoProc /\ proc = NoProc
               /\ lastKill' = lastKill /\ current_pgid' = NoPgid
        /\ launched' # launched => (pc = "popen" /\ pc' = "setpgid" /\ timer' = timer)

\* As long as every cycle of the neuron backend has ended before the launch
\* there is no child of _run_with_timeout, alive or left behind, no group is
\* recorded and no signal has been sent.
C33_NeuronCycle ==
    (cfg.backend = "neuron" /\ launched = 0) =>
        /\ proc = NoProc /\ linger = 0
        /\ lastKill = NoKill /\ current_pgid = NoPgid

\* C33: with the neuron backend a cycle runs code generation, compilation of
\* the mod files, the test for the generated script and the simulation in that
\* order: a failed code generation ends the cycle with the [ERROR] line and no
\* launch, a failed compilation is swallowed, a missing script skips the
\* simulation with no child and no signal, otherwise the simulation is launched.
C33_NeuronCycleOrder == []C33_NeuronCycle /\ [][C33_NeuronStep]_vars

C33_Witness ==
    /\ cfg.backend = "neuron" /\ pc = "sleep" /\ cycles = 1 /\ launched = 0
    /\ cls = {"NonZeroExit"} /\ log["ERROR"] = 1 /\ sigCount = 0


\* ------------------------------------------- run_eternal_happy_loop.py
\* The second supervisor has the same Runner and main without the analysis,
\* the display and their settings.  Its _run_checked and _run_with_timeout
\* are declared with the annotation "Path | None", which the interpreter
\* evaluates when it executes the class body: cfg.union_types says whether
\* the interpreter that runs the supervisors accepts it (Python 3.10 and
\* later do, earlier ones raise TypeError).
PairInit ==
    /\ cfg \in [backend : Backends, timeout_s : 1..MaxT, show_graph : {FALSE},
                open_graph : {FALSE}, gui_enabled : {FALSE}, union_types : BOOLEAN]
    /\ pc = "ensure"
    /\ hpc = "none"
    /\ current_pgid = NoPgid
    /\ proc = NoProc
    /\ timer = 0
    /\ cycles = 0
    /\ launched = 0
    /\ rc = NoRc
    /\ viewers = 0
    /\ linger = 0
    /\ gui = FALSE
    /\ lems \in BOOLEAN
    /\ exitCode = 0
    /\ sigCount = 0
    /\ lastKill = NoKill
    /\ cls = {}
    /\ log = NoLog
    /\ poem = PoemOff

\* The class body of Runner raises TypeError at "Path | None": the module
\* never gets to main() and the interpreter exits with the status of an
\* uncaught exception.
HappyImportFails ==
    /\ ~cfg.union_types
    /\ hpc = "none" /\ pc = "ensure" /\ sigCount = 0
    /\ pc' = "exited" /\ exitCode' = ExitUncaught
    /\ UNCHANGED <<poem, cfg, hpc, current_pgid, proc, timer, cycles, launched, rc,
                   viewers, linger, gui, lems, sigCount, lastKill, cls, log>>

\* run_once of the happy supervisor ends with the backend's run.
HappyRunOnceEnd ==
    /\ hpc = "none" /\ pc = "after_run"
    /\ NoCommand("cycle_end")
    /\ UNCHANGED <<poem, cfg, hpc, current_pgid, proc, timer, cycles, launched,
                   viewers, linger, gui, lems, sigCount, lastKill>>

\* print("[DONE] ..."), then time.sleep(2) starts.
HappyCycleEnd ==
    /\ hpc = "none" /\ pc = "cycle_end"
    /\ log' = log /\ Goto("sleep")
    /\ timer' = 0
    /\ UNCHANGED <<poem, cfg, hpc, current_pgid, proc, cycles, launched, rc,
                   viewers, linger, gui, lems, sigCount, lastKill, cls>>

\* The statements the two files have word for word in common, and what the
\* children and the clock do.
CommonStep ==
    \/ EnsureGenerated \/ LoopTop \/ CompileMods \/ NrnCheck
    \/ RcReturns \/ RcExits \/ RcDies
    \/ Popen \/ SetPgid \/ WaitReturns \/ WaitTimeout \/ Drain
    \/ SendSigint \/ GraceReturns \/ GraceTimeout \/ SendSigkill \/ Finally
    \/ SleepDone
    \/ (\E s \in Signals : HandleSig(s))
    \/ HandlerExit \/ UnwindFinally \/ UnwindChecked
    \/ ChildExits \/ ChildDies \/ LingerDies \/ ModelFileVanishes
    \/ Tick

\* A step of the happy supervisor.
HappyNext ==
    \/ cfg.union_types /\ (CommonStep \/ HappyRunOnceEnd \/ HappyCycleEnd)
    \/ HappyImportFails

\* The two supervisors side by side from the same start, with the analysis
\* and the display of the pain supervisor off (its steps OpenGraph, UpdateGui
\* and ViewerExits are then never enabled): every step is one that either of
\* them can take.
PairNext ==
    \/ EnsureGenerated \/ LoopTop \/ CompileMods \/ NrnCheck
    \/ RcReturns \/ RcExits \/ RcDies
    \/ Popen \/ SetPgid \/ WaitReturns \/ WaitTimeout \/ Drain
    \/ SendSigint \/ GraceReturns \/ GraceTimeout \/ SendSigkill \/ Finally
    \/ AfterRun \/ CycleEnd \/ SleepDone
    \/ (\E s \in Signals : HandleSig(s))
    \/ HandlerExit \/ UnwindFinally \/ UnwindChecked
    \/ ChildExits \/ ChildDies \/ LingerDies \/ ModelFileVanishes
    \/ Tick
    \/ HappyRunOnceEnd \/ HappyCycleEnd \/ HappyImportFails

PairSpec == PairInit /\ [][PairNext]_vars

\* C34: with analysis and display off, for the same backend, timeout, child
\* behaviours and interrupt arrival points, the two supervisors take the same
\* steps: every launch, signal, current_pgid update, sleep and exit status of
\* one is a step of the other from the same state.
C34_SupervisorsEquivalent == [][Next <=> HappyNext]_vars

\* The same where the interpreter accepts both files.
EquivalentWhereBothStart == [][cfg.union_types => (Next <=> HappyNext)]_vars


\* ------------------------------------------------------------- claims
\* ping raises and the exception leaves main.
PingRaises == CycleEnd /\ pc' = "exited" /\ exitCode' = ExitUncaught /\ log' = log

\* ping is called: the display is enabled and the window exists.
PingCalled == cfg.gui_enabled /\ gui

\* At the end of a cycle ping can end the supervisor exactly when it is
\* called, and the window exists only where an analysis has succeeded and the
\* display is enabled.
C35_PingAtCycleEnd ==
    /\ gui => (cfg.gui_enabled /\ cfg.show_graph)
    /\ (pc = "cycle_end" /\ hpc = "none") =>
            /\ ENABLED (CycleEnd /\ pc' = "sleep")
            /\ PingCalled <=> ENABLED PingRaises
            /\ ~ENABLED (CycleEnd /\ pc' \notin {"sleep", "exited"})
            /\ ~ENABLED (CycleEnd /\ pc' = "exited" /\ ~PingRaises)

\* The window is created only by the display update that follows a
\* successful analysis, and a step from the end of the cycle either starts
\* the sleep or is the exit of a raising ping, with a status other than 130
\* and no line of the loop's except clause.
C35_PingStep ==
    /\ gui' # gui => (MainStepAt("gui") /\ gui' /\ cfg.gui_enabled)
    /\ Arrives("gui") => (pc = "open" /\ "AnalysisFailure" \notin cls)
    /\ MainStepAt("cycle_end") =>
            \/ pc' = "sleep" /\ exitCode' = exitCode
            \/ PingCalled /\ pc' = "exited" /\ exitCode' # ExitInterrupt
                   /\ exitCode' # 0 /\ log' = log

\* C35: ping is called once at the end of a cycle exactly when the display is
\* enabled and a window has been created by an earlier successful analysis; it
\* is called outside any exception guard, so an exception it raises leaves
\* main and terminates the supervisor with a status other than 130.
C35_PingIsUnguarded == []C35_PingAtCycleEnd /\ [][C35_PingStep]_vars

C35_Witness ==
    /\ pc = "exited" /\ exitCode = ExitUncaught /\ sigCount = 0
    /\ gui /\ cfg.gui_enabled /\ cls = {} /\ log = NoLog /\ cycles = MaxCycles


\* -------------------------------------- poetic_quadrant_pain.py --loop
\* len(get_poem_variations())
NumVariations == 5

\* Iterations of the loop that are followed.
MaxIters == 6

\* The supervisors play no part in this program.
supervisor == <<cfg, pc, hpc, current_pgid, proc, timer, cycles, launched, rc,
                viewers, linger, gui, lems, exitCode, sigCount, lastKill, cls, log>>

\* main after the handlers are installed, with --loop: variation = 0.
PoemInit ==
    /\ \E clear_screen \in BOOLEAN, check \in BOOLEAN :
          poem = [PoemOff EXCEPT !.pc = "test", !.clear_screen = clear_screen,
                                 !.check = check]
    /\ cfg = [backend |-> "jnml", timeout_s |-> 1, show_graph |-> FALSE,
              open_graph |-> FALSE, gui_enabled |-> FALSE]
    /\ pc = "ensure"
    /\ hpc = "none"
    /\ current_pgid = NoPgid
    /\ proc = NoProc
    /\ timer = 0
    /\ cycles = 0
    /\ launched = 0
    /\ rc = NoRc
    /\ viewers = 0
    /\ linger = 0
    /\ gui = FALSE
    /\ lems = TRUE
    /\ exitCode = 0
    /\ sigCount = 0
    /\ lastKill = NoKill
    /\ cls = {}
    /\ log = NoLog

\* signal_handler: interrupted = True, print, sys.exit(0).  SystemExit is not
\* caught by "except KeyboardInterrupt" and leaves main with status 0.
PoemHandler(p) == [p EXCEPT !.interrupted = TRUE, !.pending = FALSE,
                            !.pc = "exited", !.exit = 0]

\* while not interrupted: ... if args.clear_screen: os.system("clear") starts.
PoemLoopTest ==
    /\ poem.pc = "test" /\ poem.iters < MaxIters
    /\ poem' = IF poem.interrupted THEN [poem EXCEPT !.pc = "exited", !.exit = 0]
               ELSE IF poem.clear_screen THEN [poem EXCEPT !.pc = "clear"]
               ELSE [poem EXCEPT !.pc = "header"]
    /\ UNCHANGED supervisor

\* os.system returns; a signal that was caught while it ran is handled now.
PoemClearDone ==
    /\ poem.pc = "clear"
    /\ poem' = IF poem.pending THEN PoemHandler(poem) ELSE [poem EXCEPT !.pc = "header"]
    /\ UNCHANGED supervisor

\* print(f"  Message #{variation + 1}/{len(variations)} @ {timestamp}")
PoemHeader ==
    /\ poem.pc = "header"
    /\ poem' = [poem EXCEPT !.pc = "show", !.number = poem.variation + 1]
    /\ UNCHANGED supervisor

\* print_status_check(...) with --check, else print_poem(variation), which
\* prints variations[variation % len(variations)].
PoemShow ==
    /\ poem.pc = "show"
    /\ poem' = [poem EXCEPT !.pc = "advance",
                            !.printed = IF poem.check THEN -1
                                        ELSE poem.variation % NumVariations]
    /\ UNCHANGED supervisor

\* if not interrupted: variation = (variation + 1) % len(variations), and
\* time.sleep(args.interval) starts.
PoemAdvance ==
    /\ poem.pc = "advance"
    /\ poem' = IF ~poem.interrupted
               THEN [poem EXCEPT !.pc = "sleep", !.iters = @ + 1,
                                 !.variation = (@ + 1) % NumVariations]
               ELSE [poem EXCEPT !.pc = "test", !.iters = @ + 1]
    /\ UNCHANGED supervisor

\* time.sleep(args.interval) returns.
PoemSleepDone ==
    /\ poem.pc = "sleep"
    /\ poem' = [poem EXCEPT !.pc = "test"]
    /\ UNCHANGED supervisor

\* SIGINT or SIGTERM reaches the program.  Python runs signal_handler between
\* two steps of the main code.  Inside os.system the C library has SIGINT
\* ignored for the caller until the command is over, so a SIGINT that arrives
\* then is discarded, while a SIGTERM is caught and its handler runs when
\* os.system returns.
PoemSignal(s) ==
    /\ poem.pc \notin {"off", "exited"} /\ poem.sigs < MaxSignals
    /\ poem' = IF poem.pc = "clear"
               THEN IF s = "SIGINT" THEN [poem EXCEPT !.sigs = @ + 1]
                    ELSE [poem EXCEPT !.sigs = @ + 1, !.pending = TRUE]
               ELSE [PoemHandler(poem) EXCEPT !.sigs = @ + 1]
    /\ UNCHANGED supervisor

PoemNext ==
    \/ PoemLoopTest \/ PoemClearDone \/ PoemHeader \/ PoemShow
    \/ PoemAdvance \/ PoemSleepDone
    \/ (\E s \in Signals : PoemSignal(s))

PoemSpec == PoemInit /\ [][PoemNext]_vars

\* The index is within the list, it is the number of completed iterations
\* modulo the length of the list, and once a signal has arrived the program
\* has exited with status 0 (or is about to, when the handler is pending).
C36_PoemState ==
    /\ poem.variation \in 0..(NumVariations - 1)
    /\ poem.variation = poem.iters % NumVariations
    /\ poem.pc \in {"advance", "sleep"} /\ ~poem.check =>
            poem.printed = (poem.iters - (IF poem.pc = "sleep" THEN 1 ELSE 0)) % NumVariations
    /\ poem.sigs > 0 => (poem.pending \/ (poem.pc = "exited" /\ poem.exit = 0))

\* The index moves only at the end of an iteration, by one modulo the length
\* of the list, and never after a signal.
C36_PoemStep ==
    /\ poem'.iters # poem.iters =>
            /\ poem'.iters = poem.iters + 1
            /\ poem'.variation = (poem.variation + 1) % NumVariations
            /\ poem.number = poem.variation + 1
    /\ poem'.variation # poem.variation => poem'.iters = poem.iters + 1
    /\ poem.sigs > 0 => poem'.variation = poem.variation /\ poem'.iters = poem.iters
    /\ poem'.sigs # poem.sigs =>
            (poem'.pending \/ (poem'.pc = "exited" /\ poem'.exit = 0))

\* C36: in the --loop mode the variation index stays within
\* 0..len(variations)-1 and advances by one modulo len(variations) per
\* completed iteration, so that the variations are shown in order, and a
\* SIGINT or SIGTERM at any point ends the loop with exit code 0 without
\* advancing the index further.
C36_PoemLoop == []C36_PoemState /\ [][C36_PoemStep]_vars

\* The same without --clear-screen.
PoemLoopWithoutClearScreen ==
    /\ [](~poem.clear_screen => C36_PoemState)
    /\ [][~poem.clear_screen => C36_PoemStep]_vars

\* The index part alone, with or without --clear-screen.
PoemIndexInOrder ==
    /\ poem.variation \in 0..(NumVariations - 1)
    /\ poem.variation = poem.iters % NumVariations


====
